---- MODULE Spec2Model ----
(***************************************************************************)
(* support/apply-reviews.py: resolution of a Review Board dependency chain *)
(* (review_chain) and the per-review fetch / apply / commit / remove       *)
(* protocol (apply_review), with the interpreter's exit handlers.          *)
(***************************************************************************)
EXTENDS Integers, Sequences, FiniteSets, TLC

\* ---------------------------------------------------------------- bounds
\* Review identifiers are 1..NumReviews; pull request numbers likewise.
NumReviews == 3
\* Frames of review_chain the interpreter allows before it raises
\* "maximum recursion depth exceeded". CPython's default (1000) is far above
\* any acyclic chain; here it is above the longest acyclic chain of the model.
RecursionLimit == NumReviews + 2

\* ----------------------------------------------------- values and helpers
\* Python's None (argparse default of an option that was not given).
None == 0

Ids == 1..NumReviews
PullRequests == 1..NumReviews

\* Non-zero statuses of a failing shell command.
FailCodes == {1, 2}

\* review_request.status as answered by Review Board; the program tells
\* "submitted" from every other status.
Statuses == {"pending", "submitted"}

\* review_request.depends_on: the reviews a review refers to as parents.
DependsOn == SUBSET Ids

\* A review_request record: the fields review_chain reads.
ReviewRecords == [status : Statuses, depends_on : DependsOn]

\* The review has not been requested from the server yet.
NotFetched == [status |-> "not-fetched", depends_on |-> {}]

\* urllib2.urlopen raised instead of answering.
TransportError == [status |-> "transport-error", depends_on |-> {}]

VARIABLES
    options,      \* the global options dictionary
    argv,         \* the command line as parsed (never changes)
    remote,       \* review records the server has answered with so far
    pc,           \* position of the single thread of control
    frames,       \* review_chain: review ids of the active frames, innermost first
    review_id,    \* review_chain: argument of the innermost call
    review_list,  \* review_chain: value returned by the innermost finished call
    reviews,      \* reviewboard: the resolved chain
    idx,          \* reviewboard: position of the for loop in reviews
    applied,      \* reviewboard: the applied set
    handlers,     \* atexit: registered handlers, in registration order
    pending,      \* atexit: handlers still to run at exit
    files,        \* ids whose <id>.patch this run has written and not removed
    staged,       \* ids whose patch is applied to the index and not committed
    history,      \* ids committed by this run, in commit order
    log,          \* shell commands issued, in order
    exit_code,    \* process exit status, Running while the program runs
    stderr        \* the diagnostic written at exit

vars == <<options, argv, remote, pc, frames, review_id, review_list, reviews,
          idx, applied, handlers, pending, files, staged, history, log,
          exit_code, stderr>>

Running == -1

\* summary of a review_request: a text that belongs to the review.
Summary(id) == id

review_api_url(id) == id

\* The answers url_to_json can give for a review: an exception, or the
\* review's record (the same record every time the review is requested).
url_to_json(id) ==
    {TransportError} \cup
        (IF remote[id] = NotFetched THEN ReviewRecords ELSE {remote[id]})

\* extract_review_id(parent[0].get('href')) for a one-element depends_on.
extract_review_id(parent) == CHOOSE p \in parent : TRUE

\* status compared with a status Review Board never answers with
is_submitted_wrong_literal(json_obj) == json_obj.status = "closed"

\* status == "submitted"
is_submitted(json_obj) == json_obj.status = "submitted"

\* len(parent) > 2
more_than_two_parents(parent) == Cardinality(parent) > 2

\* len(parent) > 1
more_than_one_parent(parent) == Cardinality(parent) > 1

\* review_chain testing the number of parents before the status
branch_parents_first(json_obj) ==
    IF more_than_one_parent(json_obj.depends_on) THEN "more than one parent"
    ELSE IF is_submitted(json_obj) THEN "submitted"
    ELSE IF Cardinality(json_obj.depends_on) = 0 THEN "root"
    ELSE "one parent"

\* The branch review_chain takes on a record: the status is tested first
\* (lines 76-78), then the number of parents (lines 81-91).
branch(json_obj) ==
    IF is_submitted(json_obj) THEN "submitted"
    ELSE IF more_than_one_parent(json_obj.depends_on) THEN "more than one parent"
    ELSE IF Cardinality(json_obj.depends_on) = 0 THEN "root"
    ELSE "one parent"

\* (review_id, json_obj.get('review_request').get('summary'))
chain_entry(id) == <<id, Summary(id)>>

\* the root of the chain left out of its own chain
root_chain_empty(id) == <<>>

\* elif len(parent) == 0: return [(review_id, summary)]
root_chain(id) == <<chain_entry(id)>>

\* review not in review_list
not_in(review, list) == \A i \in 1..Len(list) : list[i] # review

\* [review] + review_list
join_prepend(list, review) == <<review>> \o list

\* review_list + [review]
join(list, review) == list \o <<review>>

patch_id == IF options.review_id # None THEN options.review_id ELSE options.github

\* shell without its dry-run branch
shell_always_runs(dry_run) ==
    {[ran |-> TRUE, status |-> s] : s \in {0} \cup FailCodes}

\* shell(command, dry_run): the command is printed, or run with some status.
shell(dry_run) ==
    IF dry_run
    THEN {[ran |-> FALSE, status |-> 0]}
    ELSE {[ran |-> TRUE, status |-> s] : s \in {0} \cup FailCodes}

\* shell without its sys.exit
failed_ignored(r) == FALSE

\* if error_code != 0: sys.exit(error_code)
failed(r) == r.ran /\ r.status # 0

\* sys.exit(1) whatever the command's status
error_code_one(r) == 1

\* error_code = subprocess.call(...); sys.exit(error_code)
error_code(r) == r.status

\* fetch_patch without its GitHub branch
fetch_honours_dry_run == options.dry_run

\* The dry_run argument fetch_patch passes to shell: a GitHub patch is
\* always fetched.
fetch_dry_run == IF options.github # None THEN FALSE ELSE options.dry_run

\* remove_patch without its GitHub branch
remove_honours_dry_run == options.dry_run

\* The dry_run argument remove_patch passes to shell: a GitHub patch is
\* always removed.
remove_dry_run == IF options.github # None THEN FALSE ELSE options.dry_run

\* apply_review committing before it applies
next_call_commit_first(call) ==
    CASE call = "apply_review" -> "fetch_patch"
      [] call = "fetch_patch" -> "commit_patch"
      [] call = "commit_patch" -> "apply_patch"
      [] call = "apply_patch" -> "remove_patch"

\* The body of apply_review: the call that follows each call.
next_call(call) ==
    CASE call = "apply_review" -> "fetch_patch"
      [] call = "fetch_patch" -> "apply_patch"
      [] call = "apply_patch" -> "commit_patch"
      [] call = "commit_patch" -> "remove_patch"

\* remove_patch passing True for dry_run: the command is only printed
rm_f_printed(dry_run) == {[ran |-> FALSE, status |-> 0]}

\* rm -f <file>, through shell: it ends with status 0 (-f: a missing file is
\* no error; the file, if any, is one this run created).
rm_f(dry_run) == {r \in shell(dry_run) : r.status = 0}

\* A handler that captured the file name when it was registered
handler_file_captured(registered_for) == registered_for

\* The file a handler removes: '{_file}.patch'.format(_file=patch_id()) is
\* evaluated when the handler runs; registered_for is the value patch_id()
\* had when the handler was registered, which the lambda does not capture.
handler_file(registered_for) == patch_id

\* os._exit in place of sys.exit: the process ends without running the
\* exit handlers
Exit_without_handlers(code, diag) ==
    /\ pc' = "atexit"
    /\ exit_code' = code
    /\ stderr' = diag
    /\ pending' = 0

\* sys.exit / an uncaught exception / the end of the script: the interpreter
\* runs the registered exit handlers and then terminates with the status.
Exit(code, diag) ==
    /\ pc' = "atexit"
    /\ exit_code' = code
    /\ stderr' = diag
    /\ pending' = Len(handlers)

\* Texts are sequences of pieces; NL is the newline character.
NL == "\n"

\* '\n'.join([summary, description, trailer])
join_lines_single(parts) ==
    parts[1] \o <<NL>> \o parts[2] \o <<NL>> \o parts[3]

\* '\n\n'.join([summary, description, trailer])
join_lines(parts) ==
    parts[1] \o <<NL, NL>> \o parts[2] \o <<NL, NL>> \o parts[3]

\* review_url(review_id): '{base}/{review}/'
review_url(id) == <<"https://reviews.apache.org/r", "/", id, "/">>

\* pull_request_url(pull_request_number): '{base}/{pr}'
pull_request_url(pr) == <<"https://api.github.com/repos/apache/mesos/pulls", "/", pr>>

\* title and body texts a pull request may carry.
Texts == {<<"Fix bug">>, <<"Details", NL, "and more">>}

\* The pull request record as answered by GitHub: the fields github_data
\* reads.
PullRequestJson == [title : Texts, body : Texts]

\* description of a review_request: a text that belongs to the review.
Description(id) == <<"description of", id, NL, "in two lines">>

\* get_author(patch): the From: line of the patch file; linecache.getline
\* gives '' when the file cannot be read.
get_author(patch) == IF patch \in files THEN <<"author of", patch>> ELSE <<>>

\* github_data(): the review_data dictionary for a pull request record.
github_data(pull_request_number, pull_request) ==
    [summary |-> pull_request.title,
     description |-> pull_request.body,
     url |-> pull_request_url(pull_request_number),
     author |-> get_author(pull_request_number),
     message |-> join_lines(<<pull_request.title, pull_request.body,
                              <<"This closes: ", pull_request_number>>>>)]

\* reviewboard_data(): the review_data dictionary for a review; the user
\* record gives the author.
reviewboard_data(id) ==
    [summary |-> <<Summary(id)>>,
     description |-> Description(id),
     url |-> review_url(id),
     author |-> <<"submitter of", id>>,
     message |-> join_lines(<<<<Summary(id)>>, Description(id),
                              <<"Review: ">> \o review_url(id)>>)]

\* patch_data(): the dictionaries it can return once the metadata requests
\* have been answered.
patch_data ==
    IF options.review_id # None
    THEN {reviewboard_data(options.review_id)}
    ELSE {github_data(options.github, pr) : pr \in PullRequestJson}

\* No review_data: the command is not a commit.
NoData == [summary |-> <<>>, description |-> <<>>, url |-> <<>>,
           author |-> <<>>, message |-> <<>>]

Event(op, id, r) ==
    [op |-> op, id |-> id, ran |-> r.ran, status |-> r.status, data |-> NoData]

Init ==
    /\ \E dry \in BOOLEAN :
        \/ \E r \in Ids :
              argv = [review_id |-> r, github |-> None, dry_run |-> dry]
        \/ \E g \in PullRequests :
              argv = [review_id |-> None, github |-> g, dry_run |-> dry]
    /\ options = argv
    /\ remote = [i \in Ids |-> NotFetched]
    /\ pc = "main"
    /\ frames = <<>>
    /\ review_id = None
    /\ review_list = <<>>
    /\ reviews = <<>>
    /\ idx = 1
    /\ applied = {}
    /\ handlers = <<>>
    /\ pending = 0
    /\ files = {}
    /\ staged = {}
    /\ history = <<>>
    /\ log = <<>>
    /\ exit_code = Running
    /\ stderr = "none"

\* the patch applied before the chain is resolved
entry_point_apply_first == "apply_review"

\* if options['review_id']: reviewboard() else: github(); the first call
\* each of them makes.
entry_point ==
    IF options.review_id # None THEN "review_chain" ELSE "apply_review"

\* __main__: reviewboard() calls review_chain(options['review_id']),
\* github() calls apply_review().
main ==
    /\ pc = "main"
    /\ pc' = entry_point
    /\ IF entry_point = "review_chain"
       THEN review_id' = options.review_id
       ELSE UNCHANGED review_id
    /\ UNCHANGED <<options, argv, remote, frames, review_list, reviews, idx,
                   applied, handlers, pending, files, staged, history, log,
                   exit_code, stderr>>

\* variables review_chain never writes
local_state == <<options, argv, reviews, idx, applied, handlers, files,
                 staged, history, log>>

\* review_chain, lines 71-91: from the call to the recursive call or to the
\* return of a base case.
review_chain ==
    /\ pc = "review_chain"
    /\ \E json_obj \in url_to_json(review_api_url(review_id)) :
        IF json_obj = TransportError
        THEN /\ Exit(1, "traceback: urlopen")
             /\ UNCHANGED <<remote, frames, review_id, review_list>>
        ELSE
          /\ remote' = [remote EXCEPT ![review_id] = json_obj]
          /\ IF branch(json_obj) = "submitted"
             THEN /\ review_list' = <<>>
                  /\ pc' = "review_chain_return"
                  /\ UNCHANGED <<frames, review_id, exit_code, stderr, pending>>
             ELSE IF branch(json_obj) = "more than one parent"
             THEN /\ Exit(1, "more than one parent")
                  /\ UNCHANGED <<frames, review_id, review_list>>
             ELSE IF branch(json_obj) = "root"
             THEN /\ review_list' = root_chain(review_id)
                  /\ pc' = "review_chain_return"
                  /\ UNCHANGED <<frames, review_id, exit_code, stderr, pending>>
             ELSE IF Len(frames) + 1 >= RecursionLimit
             THEN \* RuntimeError: maximum recursion depth exceeded
                  /\ Exit(1, "traceback: recursion depth")
                  /\ UNCHANGED <<frames, review_id, review_list>>
             ELSE /\ frames' = <<review_id>> \o frames
                  /\ review_id' = extract_review_id(json_obj.depends_on)
                  /\ pc' = "review_chain"
                  /\ UNCHANGED <<review_list, exit_code, stderr, pending>>
    /\ UNCHANGED local_state

\* review_chain, lines 91-99: the recursive call has returned review_list to
\* the frame of review Head(frames).
review_chain_return ==
    /\ pc = "review_chain_return"
    /\ frames # <<>>
    /\ LET review == chain_entry(Head(frames)) IN
         IF not_in(review, review_list)
         THEN /\ review_list' = join(review_list, review)
              /\ frames' = Tail(frames)
              /\ UNCHANGED <<pc, exit_code, stderr, pending>>
         ELSE /\ Exit(1, "circular dependency")
              /\ UNCHANGED <<review_list, frames>>
    /\ UNCHANGED <<remote, review_id>>
    /\ UNCHANGED local_state

\* reviewboard, lines 309-311: the outermost review_chain has returned.
reviewboard ==
    /\ pc = "review_chain_return"
    /\ frames = <<>>
    /\ reviews' = review_list
    /\ applied' = {}
    /\ idx' = 1
    /\ pc' = "for"
    /\ UNCHANGED <<options, argv, remote, frames, review_id, review_list,
                   handlers, pending, files, staged, history, log, exit_code,
                   stderr>>

\* the for loop without its assignment to options['review_id']
options_for_unchanged(id) == options

\* options['review_id'] = review_id
options_for(id) == [options EXCEPT !.review_id = id]

\* the for loop without its test of the applied set
not_applied_unchecked(id) == TRUE

\* review_id not in applied
not_applied(id) == id \notin applied

\* reviewboard, lines 312-316: one iteration of the for loop up to the call
\* of apply_review, or the end of the loop and of the script.
reviewboard_for ==
    /\ pc = "for"
    /\ IF idx > Len(reviews)
       THEN /\ Exit(0, "none")
            /\ UNCHANGED <<idx, applied, options>>
       ELSE /\ idx' = idx + 1
            /\ IF not_applied(reviews[idx][1])
               THEN /\ applied' = applied \cup {reviews[idx][1]}
                    /\ options' = options_for(reviews[idx][1])
                    /\ pc' = "apply_review"
               ELSE UNCHANGED <<applied, options, pc>>
            /\ UNCHANGED <<exit_code, stderr, pending>>
    /\ UNCHANGED <<argv, remote, frames, review_id, review_list, reviews,
                   handlers, files, staged, history, log>>

\* variables the apply/commit protocol never writes
chain_state == <<options, argv, remote, frames, review_id, review_list,
                 reviews, idx, applied>>

\* apply_review, lines 134-135: atexit.register of the removal handler.
apply_review ==
    /\ pc = "apply_review"
    /\ handlers' = Append(handlers, patch_id)
    /\ pc' = next_call("apply_review")
    /\ UNCHANGED <<pending, files, staged, history, log, exit_code, stderr>>
    /\ UNCHANGED chain_state

\* fetch_patch: wget -O <id>.patch <url>. A failing wget may or may not have
\* left the file it opened for output.
fetch_patch ==
    /\ pc = "fetch_patch"
    /\ \E r \in shell(fetch_dry_run) :
        /\ log' = Append(log, Event("fetch", patch_id, r))
        /\ IF ~failed(r)
           THEN /\ files' = IF r.ran THEN files \cup {patch_id} ELSE files
                /\ pc' = next_call("fetch_patch")
                /\ UNCHANGED <<exit_code, stderr, pending>>
           ELSE /\ \E left \in BOOLEAN :
                     files' = IF left THEN files \cup {patch_id} ELSE files
                /\ Exit(error_code(r), "none")
    /\ UNCHANGED <<handlers, staged, history>>
    /\ UNCHANGED chain_state

\* apply_patch: git apply --index <id>.patch
apply_patch ==
    /\ pc = "apply_patch"
    /\ \E r \in shell(options.dry_run) :
        /\ log' = Append(log, Event("apply", patch_id, r))
        /\ IF ~failed(r)
           THEN /\ staged' = IF r.ran THEN staged \cup {patch_id} ELSE staged
                /\ pc' = next_call("apply_patch")
                /\ UNCHANGED <<exit_code, stderr, pending>>
           ELSE /\ Exit(error_code(r), "none")
                /\ UNCHANGED staged
    /\ UNCHANGED <<handlers, files, history>>
    /\ UNCHANGED chain_state

\* commit_patch: patch_data() requests the metadata (and may raise), then
\* git commit --author ... -am ... commits everything staged.
commit_patch ==
    /\ pc = "commit_patch"
    /\ \E raised \in BOOLEAN :
        IF raised
        THEN /\ Exit(1, "traceback: patch_data")
             /\ UNCHANGED <<log, staged, history>>
        ELSE \E data \in patch_data, r \in shell(options.dry_run) :
              /\ log' = Append(log, [Event("commit", patch_id, r)
                                        EXCEPT !.data = data])
              /\ IF ~failed(r)
                 THEN /\ history' = IF r.ran THEN Append(history, patch_id)
                                    ELSE history
                      /\ staged' = IF r.ran THEN {} ELSE staged
                      /\ pc' = next_call("commit_patch")
                      /\ UNCHANGED <<exit_code, stderr, pending>>
                 ELSE /\ Exit(error_code(r), "none")
                      /\ UNCHANGED <<staged, history>>
    /\ UNCHANGED <<handlers, files>>
    /\ UNCHANGED chain_state

\* remove_patch() at the end of apply_review: rm -f <id>.patch, then the
\* return to the for loop of reviewboard, or to the end of the script.
remove_patch ==
    /\ pc = "remove_patch"
    /\ \E r \in rm_f(remove_dry_run) :
        /\ log' = Append(log, Event("remove", patch_id, r))
        /\ files' = IF r.ran THEN files \ {patch_id} ELSE files
    /\ IF options.github # None
       THEN Exit(0, "none")
       ELSE /\ pc' = "for"
            /\ UNCHANGED <<exit_code, stderr, pending>>
    /\ UNCHANGED <<handlers, staged, history>>
    /\ UNCHANGED chain_state

\* One registered handler runs at exit, last registered first:
\* remove_patch('<patch_id()>.patch').
atexit_handler ==
    /\ pc = "atexit"
    /\ pending > 0
    /\ \E r \in rm_f(remove_dry_run) :
        /\ log' = Append(log, Event("atexit", handler_file(handlers[pending]), r))
        /\ files' = IF r.ran THEN files \ {handler_file(handlers[pending])}
                    ELSE files
    /\ pending' = pending - 1
    /\ UNCHANGED <<pc, handlers, staged, history, exit_code, stderr>>
    /\ UNCHANGED chain_state

\* The interpreter terminates once every handler has run.
terminate ==
    /\ pc = "atexit"
    /\ pending = 0
    /\ pc' = "terminated"
    /\ UNCHANGED <<handlers, pending, files, staged, history, log, exit_code,
                   stderr>>
    /\ UNCHANGED chain_state

Next ==
    \/ main
    \/ review_chain
    \/ review_chain_return
    \/ reviewboard
    \/ reviewboard_for
    \/ apply_review
    \/ fetch_patch
    \/ apply_patch
    \/ commit_patch
    \/ remove_patch
    \/ atexit_handler
    \/ terminate

Spec == Init /\ [][Next]_vars

\* ------------------------------------------------- the driver loop alone
\* Longest sequence handed to the for loop of reviewboard().
MaxFed == 4

RECURSIVE SeqsUpTo(_)
SeqsUpTo(n) ==
    IF n = 0 THEN {<<>>}
    ELSE SeqsUpTo(n - 1) \cup [1..n -> {chain_entry(i) : i \in Ids}]

\* The for loop of reviewboard() entered with any sequence of entries as
\* `reviews`, identifiers occurring more than once included; the review the
\* command line names is the last entry of a sequence that has one.
InitDriver ==
    /\ review_list \in SeqsUpTo(MaxFed)
    /\ reviews = review_list
    /\ \E dry \in BOOLEAN, r \in Ids :
          /\ reviews # <<>> => r = reviews[Len(reviews)][1]
          /\ argv = [review_id |-> r, github |-> None, dry_run |-> dry]
    /\ options = argv
    /\ remote = [i \in Ids |-> NotFetched]
    /\ pc = "for"
    /\ frames = <<>>
    /\ review_id = argv.review_id
    /\ idx = 1
    /\ applied = {}
    /\ handlers = <<>>
    /\ pending = 0
    /\ files = {}
    /\ staged = {}
    /\ history = <<>>
    /\ log = <<>>
    /\ exit_code = Running
    /\ stderr = "none"

NextDriver ==
    \/ reviewboard_for
    \/ apply_review
    \/ fetch_patch
    \/ apply_patch
    \/ commit_patch
    \/ remove_patch
    \/ atexit_handler
    \/ terminate

SpecDriver == InitDriver /\ [][NextDriver]_vars

\* ------------------------------------------------------------ properties

\* The review the command line names.
start == argv.review_id

\* A review is open when its record is known and is not submitted.
IsFetched(id) == remote[id] # NotFetched
IsOpen(id) == IsFetched(id) /\ remote[id].status # "submitted"
Parents(id) == remote[id].depends_on

\* The ancestor walk from id along single parent references of open
\* reviews, nearest first, cut after n reviews.
RECURSIVE Walk(_, _)
Walk(id, n) ==
    IF n = 0 THEN <<>>
    ELSE IF IsOpen(id) /\ Cardinality(Parents(id)) = 1
         THEN <<id>> \o Walk(CHOOSE p \in Parents(id) : TRUE, n - 1)
         ELSE <<id>>

StartWalk == Walk(start, NumReviews + 1)
WalkEnd == StartWalk[Len(StartWalk)]

\* The entries of the first n reviews of a walk, oldest first.
OldestFirst(walk, n) == [i \in 1..n |-> <<walk[n + 1 - i], Summary(walk[n + 1 - i])>>]

Ids_of(list) == [i \in 1..Len(list) |-> list[i][1]]

NoDuplicates(list) ==
    \A i, j \in 1..Len(list) : list[i][1] = list[j][1] => i = j

\* review_chain(start) has returned its list to reviewboard().
ChainReturned ==
    /\ start # None
    /\ \/ pc \in {"for", "apply_review", "fetch_patch", "apply_patch",
                  "commit_patch", "remove_patch"}
       \/ /\ pc \in {"atexit", "terminated"}
          /\ stderr \in {"none", "traceback: patch_data"}

\* review_chain(start) has ended the process.
ChainFailed ==
    /\ start # None
    /\ pc \in {"atexit", "terminated"}
    /\ ~ChainReturned

\* No review has been processed: nothing fetched, applied, committed or
\* registered.
NothingProcessed ==
    /\ log = <<>>
    /\ handlers = <<>>
    /\ applied = {}
    /\ files = {}
    /\ staged = {}
    /\ history = <<>>

\* The walk from the start review is a chain of N open reviews ending in a
\* root without parents.
LinearOpenChain ==
    /\ start # None
    /\ Len(StartWalk) <= NumReviews
    /\ \A i \in 1..Len(StartWalk) : IsOpen(StartWalk[i])
    /\ Parents(WalkEnd) = {}

\* C1: for a chain of N >= 1 linearly dependent open reviews, review_chain
\* on the tip returns exactly the N entries, oldest ancestor first and the
\* requested review last, each identifier once.
C1_LinearChainResolved ==
    /\ LinearOpenChain => ~ChainFailed
    /\ (ChainReturned /\ LinearOpenChain) =>
        /\ reviews = OldestFirst(StartWalk, Len(StartWalk))
        /\ Len(reviews) = Len(StartWalk)
        /\ reviews[Len(reviews)][1] = start
        /\ NoDuplicates(reviews)

C1_Witness ==
    /\ ChainReturned
    /\ LinearOpenChain
    /\ Len(StartWalk) = NumReviews
    /\ Len(reviews) = NumReviews

\* The walk from the start review has reached a submitted review.
WalkReachedSubmitted ==
    /\ start # None
    /\ IsFetched(WalkEnd)
    /\ remote[WalkEnd].status = "submitted"

\* C2: when the walk reaches a submitted review it stops there: the result
\* holds exactly the open reviews between it and the start review, oldest
\* first, and neither the submitted review nor anything older; when the
\* start review is submitted the result is empty and nothing is applied.
C2_StopsAtSubmitted ==
    WalkReachedSubmitted =>
        /\ pc # "review_chain"
        /\ ~ChainFailed
        /\ ChainReturned =>
              /\ reviews = OldestFirst(StartWalk, Len(StartWalk) - 1)
              /\ \A i \in 1..Len(reviews) : IsOpen(reviews[i][1])
        /\ (ChainReturned /\ WalkEnd = start) =>
              /\ reviews = <<>>
              /\ NothingProcessed
              /\ pc \in {"atexit", "terminated"} => exit_code = 0

C2_Witness ==
    /\ WalkReachedSubmitted
    /\ Len(StartWalk) = NumReviews
    /\ Parents(WalkEnd) # {}
    /\ ChainReturned
    /\ Len(reviews) = NumReviews - 1

C2_WitnessStartSubmitted ==
    /\ WalkReachedSubmitted
    /\ WalkEnd = start
    /\ pc = "terminated"

\* The walk from the start review has reached an open review with two or
\* more parent references.
WalkReachedMultiParent ==
    /\ start # None
    /\ IsOpen(WalkEnd)
    /\ Cardinality(Parents(WalkEnd)) >= 2

\* C3: a review with two or more parent references makes resolution fail
\* with the "more than one parent" diagnostic and a non-zero exit; no chain
\* is returned and no review is fetched, applied or committed.
C3_MultiParentFails ==
    WalkReachedMultiParent =>
        /\ ChainFailed
        /\ stderr = "more than one parent"
        /\ exit_code # 0
        /\ reviews = <<>>
        /\ NothingProcessed

C3_Witness ==
    /\ WalkReachedMultiParent
    /\ Len(StartWalk) = NumReviews
    /\ pc = "terminated"

\* The walk from the start review never ends: it follows single parent
\* references of open reviews through more reviews than there are, so some
\* review depends on itself.
WalkHasCycle ==
    /\ start # None
    /\ Len(StartWalk) = NumReviews + 1
    /\ IsOpen(WalkEnd)
    /\ Cardinality(Parents(WalkEnd)) = 1

\* C4: on a cycle of open single-parent reviews, resolution that is not cut
\* short by a transport failure ends with the circular dependency
\* diagnostic and a non-zero exit.
C4_CycleFailsWithCycleError ==
    (WalkHasCycle /\ pc \in {"atexit", "terminated"}
                  /\ stderr # "traceback: urlopen") =>
        /\ stderr = "circular dependency"
        /\ exit_code # 0

\* The events of the log that remove the patch file of a review, in-line
\* or from an exit handler.
Cleanups(id) ==
    Cardinality({i \in 1..Len(log) :
                    log[i].op \in {"remove", "atexit"} /\ log[i].id = id})

Events(op) == {i \in 1..Len(log) : log[i].op = op}

\* C5: once the process has terminated after a review's processing began,
\* no patch file written by the run remains; the removal handler is
\* registered before the review's fetch step.
C5_NoPatchLeftBehind ==
    /\ (pc = "terminated" /\ handlers # <<>>) => files = {}
    /\ pc \in {"fetch_patch", "apply_patch", "commit_patch", "remove_patch"} =>
          /\ handlers # <<>>
          /\ handlers[Len(handlers)] = patch_id
    /\ Cardinality(Events("fetch")) <= Len(handlers)
    /\ files # {} => handlers # <<>>

C5_Witness ==
    /\ pc = "terminated"
    /\ exit_code # 0
    /\ Len(handlers) >= 2
    /\ files = {}
    /\ \E i \in Events("atexit") : log[i].ran

\* C6 as stated: the removal of each review's patch file is executed
\* exactly once over the run.
C6_CleanupExactlyOnce ==
    pc = "terminated" =>
        \A i \in 1..Len(handlers) : Cleanups(handlers[i]) = 1

\* C6 as amended: the removal is executed at least once for each review
\* whose processing began: once, in-line, for every review but the last one
\* begun, and for the last one once per registered exit handler, plus the
\* in-line removal when the run ended normally.
C6_CleanupAtLeastOnce ==
    pc = "terminated" =>
        \A i \in 1..Len(handlers) :
            /\ Cleanups(handlers[i]) >= 1
            /\ i < Len(handlers) => Cleanups(handlers[i]) = 1
            /\ i = Len(handlers) =>
                  Cleanups(handlers[i]) =
                      Len(handlers) + (IF exit_code = 0 THEN 1 ELSE 0)

C6_Witness ==
    /\ pc = "terminated"
    /\ Len(handlers) = NumReviews
    /\ exit_code # 0
    /\ Cleanups(handlers[1]) = 1
    /\ Cleanups(handlers[NumReviews]) = NumReviews

\* The event before event i is the step `op` of the same review, ended
\* without a failure.
Follows(i, op) ==
    /\ i > 1
    /\ log[i - 1].op = op
    /\ log[i - 1].id = log[i].id
    /\ log[i - 1].status = 0

\* C7: within one review the steps run in the order fetch, apply, commit,
\* in-line removal, each only after the step before it returned without a
\* failure (a command really run only after the command before it was
\* really run with status 0, but for the removal of a GitHub dry run), and
\* the steps of a review are not interleaved with those of another review.
C7_StepsInOrder ==
    /\ \A i \in 1..Len(log) :
          /\ log[i].op = "fetch" =>
                \/ i = 1
                \/ /\ log[i - 1].op = "remove"
                   /\ log[i - 1].id # log[i].id
          /\ log[i].op = "apply" =>
                /\ Follows(i, "fetch")
                /\ log[i].ran => log[i - 1].ran
          /\ log[i].op = "commit" =>
                /\ Follows(i, "apply")
                /\ log[i].ran => log[i - 1].ran
          /\ log[i].op = "remove" =>
                /\ Follows(i, "commit")
                /\ (log[i].ran /\ argv.github = None) => log[i - 1].ran
          /\ log[i].op = "atexit" =>
                /\ i > 1
                /\ log[i - 1].id = log[i].id
    /\ \A i, j, k \in 1..Len(log) :
          (i < j /\ j < k /\ log[i].id = log[k].id) => log[j].id = log[i].id

C7_Witness ==
    /\ pc = "terminated"
    /\ exit_code = 0
    /\ Len(history) = NumReviews
    /\ \A i \in Events("remove") : log[i].ran

\* The shell commands that ended with a non-zero status.
FailedEvents == {i \in 1..Len(log) : log[i].ran /\ log[i].status # 0}

\* The identifiers the driver had fully processed before the review it is
\* at: in chained mode the positions before idx - 1 of the resolved order.
ProcessedBefore ==
    IF start # None THEN Ids_of(SubSeq(reviews, 1, idx - 2)) ELSE <<>>

\* C8: a failing fetch, apply or commit of the review at position k ends
\* the run at once: the failing command is the last one issued but for the
\* removals of the exit handlers, it was not tried before, the exit status
\* is not 0 and the commits of the run are exactly those of the positions
\* before k.
C8_FailureEndsRun ==
    \A i \in FailedEvents :
        /\ log[i].op \in {"fetch", "apply", "commit"}
        /\ pc \in {"atexit", "terminated"}
        /\ exit_code # 0
        /\ \A j \in 1..Len(log) :
              /\ j > i => log[j].op = "atexit"
              /\ j < i => ~(log[j].op = log[i].op /\ log[j].id = log[i].id)
        /\ start # None =>
              /\ idx - 1 \in 1..Len(reviews)
              /\ reviews[idx - 1][1] = log[i].id
        /\ history = ProcessedBefore
        /\ log[i].id \notin {history[j] : j \in 1..Len(history)}

C8_Witness ==
    /\ pc = "terminated"
    /\ FailedEvents # {}
    /\ Len(history) = NumReviews - 1
    /\ idx - 1 = NumReviews

\* A dry run of the Review Board backend.
ReviewBoardDryRun == argv.dry_run /\ start # None

Steps == <<"fetch", "apply", "commit", "remove">>

\* C9: in a Review Board dry run the fetch, apply, commit and removal
\* commands of every review are reported and never executed, in the exit
\* handlers too; working tree, history and filesystem stay as they were.
C9_ReviewBoardDryRunChangesNothing ==
    ReviewBoardDryRun =>
        /\ \A i \in 1..Len(log) : ~log[i].ran
        /\ files = {}
        /\ staged = {}
        /\ history = <<>>
        /\ (pc = "terminated" /\ exit_code = 0) =>
              /\ Len(log) = 5 * Len(reviews)
              /\ \A k \in 1..Len(reviews) :
                    /\ \A n \in 1..4 :
                          /\ log[4 * (k - 1) + n].op = Steps[n]
                          /\ log[4 * (k - 1) + n].id = reviews[k][1]
                    /\ log[4 * Len(reviews) + k].op = "atexit"

C9_Witness ==
    /\ ReviewBoardDryRun
    /\ pc = "terminated"
    /\ exit_code = 0
    /\ Len(reviews) = NumReviews
    /\ Len(log) = 5 * NumReviews

\* A dry run of the GitHub backend.
GitHubDryRun == argv.dry_run /\ argv.github # None

\* C10: in a GitHub dry run the patch is really fetched and really removed
\* while apply and commit are only reported; at termination the working
\* tree and the history are unchanged and the patch file is gone.
C10_GitHubDryRunFetchesAndRemoves ==
    GitHubDryRun =>
        /\ \A i \in 1..Len(log) :
              /\ log[i].op \in {"fetch", "remove", "atexit"} => log[i].ran
              /\ log[i].op \in {"apply", "commit"} => ~log[i].ran
        /\ staged = {}
        /\ history = <<>>
        /\ pc \in {"apply_patch", "commit_patch", "remove_patch"} =>
              argv.github \in files
        /\ pc = "terminated" =>
              /\ files = {}
              /\ log[1].op = "fetch"
              /\ log[Len(log)].op = "atexit"
              /\ log[Len(log)].id = argv.github
              /\ exit_code = 0 => Events("remove") # {}

C10_Witness ==
    /\ GitHubDryRun
    /\ pc = "terminated"
    /\ exit_code = 0
    /\ Events("commit") # {}
    /\ Events("remove") # {}

\* The identifiers of a sequence in the order of their first occurrence.
RECURSIVE FirstOccurrences(_)
FirstOccurrences(ids) ==
    IF ids = <<>> THEN <<>>
    ELSE LET front == FirstOccurrences(SubSeq(ids, 1, Len(ids) - 1))
             last == ids[Len(ids)]
         IN IF \E i \in 1..Len(front) : front[i] = last
            THEN front
            ELSE Append(front, last)

\* The positions of `reviews` the for loop has taken so far.
Taken == SubSeq(reviews, 1, idx - 1)

\* The identifiers apply_review has been called for, in call order.
Invoked ==
    IF pc = "apply_review" THEN Append(handlers, patch_id) ELSE handlers

\* C11 (state part): apply_review has been invoked for the identifiers the
\* loop has taken, in their order and once each, an identifier met again
\* being skipped; the applied set holds exactly those identifiers.
C11_OncePerIdentifier ==
    (start # None /\ pc \in {"for", "apply_review", "fetch_patch",
                              "apply_patch", "commit_patch", "remove_patch",
                              "atexit", "terminated"}) =>
        /\ Invoked = FirstOccurrences(Ids_of(Taken))
        /\ \A i, j \in 1..Len(Invoked) : Invoked[i] = Invoked[j] => i = j
        /\ pc \notin {"apply_review", "fetch_patch"} =>
              Cardinality(Events("fetch")) = Len(Invoked)
        /\ applied = {Taken[i][1] : i \in 1..Len(Taken)}

\* C11: in chained mode the apply/commit protocol is invoked for the
\* identifiers of the sequence in order and at most once per identifier (a
\* sequence holding the chain twice applies nothing in its second pass), and
\* the applied set only grows.
C11_AppliedOnceAndGrowing ==
    /\ []C11_OncePerIdentifier
    /\ [][applied \subseteq applied']_vars

\* A chain of two reviews fed twice: the run ends normally having processed
\* two reviews.
C11_Witness ==
    /\ pc = "terminated"
    /\ exit_code = 0
    /\ Len(reviews) = 4
    /\ reviews[3] = reviews[1]
    /\ reviews[4] = reviews[2]
    /\ reviews[1] # reviews[2]
    /\ Len(handlers) = 2
    /\ Cardinality(Events("commit")) = 2

\* Every review the run was to apply has been committed.
AllCommitted ==
    IF start # None
    THEN ChainReturned /\ history = Ids_of(reviews)
    ELSE history = <<argv.github>>

\* C12: a fetch, apply or commit command that ends with a non-zero status s
\* makes the process terminate with status s; a detected multi-parent
\* review or cycle ends it with a non-zero status after a diagnostic; when
\* every review of the chain has been committed it terminates with 0.
C12_ExitStatus ==
    /\ \A i \in FailedEvents :
          /\ pc \in {"atexit", "terminated"}
          /\ exit_code = log[i].status
    /\ (start # None /\ WalkReachedMultiParent) =>
          /\ exit_code # 0
          /\ stderr = "more than one parent"
    /\ stderr \in {"more than one parent", "circular dependency"} =>
          /\ pc \in {"atexit", "terminated"}
          /\ exit_code # 0
    /\ (pc = "terminated" /\ AllCommitted) => exit_code = 0
    /\ pc \notin {"atexit", "terminated"} => exit_code = Running

C12_Witness ==
    /\ pc = "terminated"
    /\ exit_code = 2
    /\ \E i \in FailedEvents : log[i].op = "commit" /\ log[i].status = 2
    /\ Len(history) = NumReviews - 1

C12_WitnessAllCommitted ==
    /\ pc = "terminated"
    /\ start # None
    /\ AllCommitted
    /\ Len(history) = NumReviews
    /\ exit_code = 0

\* The text is made of exactly these three parts, each two parts separated
\* by one blank line (two newline characters) and nothing else.
ThreeParts(text, first, second, third) ==
    /\ Len(text) = Len(first) + Len(second) + Len(third) + 4
    /\ SubSeq(text, 1, Len(first)) = first
    /\ text[Len(first) + 1] = NL
    /\ text[Len(first) + 2] = NL
    /\ SubSeq(text, Len(first) + 3, Len(first) + 2 + Len(second)) = second
    /\ text[Len(first) + Len(second) + 3] = NL
    /\ text[Len(first) + Len(second) + 4] = NL
    /\ SubSeq(text, Len(first) + Len(second) + 5, Len(text)) = third

\* C13: the commit message is summary, description and trailer joined by
\* one blank line each; the trailer is "This closes: <pr-number>" for a pull
\* request and "Review: <review URL>" of the review being committed for a
\* review; title "Fix bug", body "Details", number 42 give
\* "Fix bug\n\nDetails\n\nThis closes: 42".
C13_CommitMessage ==
    /\ \A i \in Events("commit") :
          LET data == log[i].data IN
            IF argv.github # None
            THEN /\ data.summary \in Texts
                 /\ data.description \in Texts
                 /\ ThreeParts(data.message, data.summary, data.description,
                               <<"This closes: ", argv.github>>)
            ELSE /\ data.summary = <<Summary(log[i].id)>>
                 /\ data.description = Description(log[i].id)
                 /\ \E k \in 1..Len(reviews) : reviews[k][1] = log[i].id
                 /\ log[i - 1].op = "apply" /\ log[i - 1].id = log[i].id
                 /\ ThreeParts(data.message, data.summary, data.description,
                               <<"Review: ", "https://reviews.apache.org/r",
                                 "/", log[i].id, "/">>)
    /\ github_data(42, [title |-> <<"Fix bug">>, body |-> <<"Details">>]).message
          = <<"Fix bug", NL, NL, "Details", NL, NL, "This closes: ", 42>>

C13_Witness ==
    /\ pc = "terminated"
    /\ argv.github # None
    /\ \E i \in Events("commit") :
          /\ log[i].ran
          /\ log[i].data.message =
                <<"Fix bug", NL, NL, "Details", NL, "and more", NL, NL,
                  "This closes: ", argv.github>>

C13_WitnessReview ==
    /\ pc = "terminated"
    /\ start # None
    /\ Cardinality(Events("commit")) = NumReviews
    /\ \A i \in Events("commit") : log[i].ran

\* The ApplicationOrder invariant of a sequence of entries: no identifier
\* twice, and an entry's open parent is the entry right before it.
ApplicationOrder(list) ==
    /\ NoDuplicates(list)
    /\ \A i \in 1..Len(list) :
          /\ IsFetched(list[i][1])
          /\ \A p \in Parents(list[i][1]) :
                IsOpen(p) => (i > 1 /\ list[i - 1][1] = p)

\* C14: every sequence review_chain returns, to reviewboard() or to an
\* outer call of itself, satisfies ApplicationOrder.
C14_ApplicationOrder ==
    /\ pc = "review_chain_return" => ApplicationOrder(review_list)
    /\ ChainReturned => ApplicationOrder(reviews)

C14_Witness ==
    /\ ChainReturned
    /\ Len(reviews) = NumReviews - 1
    /\ Parents(reviews[1][1]) # {}
    /\ \A p \in Parents(reviews[1][1]) : ~IsOpen(p)

\* The walk from the start review has been followed to its end: a submitted
\* review or a root, every review on the way fetched.
ResolutionComplete ==
    /\ start # None
    /\ IsFetched(WalkEnd)
    /\ \/ remote[WalkEnd].status = "submitted"
       \/ Parents(WalkEnd) = {}

\* C15: in chained mode there is no local effect (no fetch, apply, commit,
\* removal, handler registration, change of the applied set or of the
\* options) before review_chain has returned to reviewboard(), and a run
\* whose resolution failed has processed no review.
C15_ResolutionBeforeEffects ==
    start # None =>
        /\ (~NothingProcessed \/ options # argv) =>
              /\ ResolutionComplete
              /\ ChainReturned
              /\ frames = <<>>
        /\ pc \in {"main", "review_chain", "review_chain_return"} =>
              (NothingProcessed /\ options = argv)
        /\ ChainFailed => (NothingProcessed /\ options = argv)

C15_Witness ==
    /\ ChainFailed
    /\ pc = "terminated"
    /\ stderr = "traceback: urlopen"
    /\ Cardinality({i \in Ids : IsFetched(i)}) = NumReviews - 1

C15_WitnessEffects ==
    /\ start # None
    /\ ResolutionComplete
    /\ Len(history) = NumReviews

WalkIds == {StartWalk[i] : i \in 1..Len(StartWalk)}

\* The walk has ended at a submitted review with two or more parents.
SubmittedMultiParent ==
    /\ WalkReachedSubmitted
    /\ Cardinality(Parents(WalkEnd)) >= 2

\* C16: a submitted review with two or more parent references ends the walk
\* with an empty sub-chain and without the "more than one parent" failure;
\* its parents are not requested, so nothing beyond it is detected.
C16_SubmittedBeforeParentCount ==
    /\ SubmittedMultiParent =>
          /\ ~ChainFailed
          /\ stderr # "more than one parent"
          /\ pc # "review_chain"
          /\ \A p \in Parents(WalkEnd) : IsFetched(p) => p \in WalkIds
          /\ ChainReturned =>
                reviews = OldestFirst(StartWalk, Len(StartWalk) - 1)
    /\ start # None => \A i \in Ids : IsFetched(i) => i \in WalkIds

C16_Witness ==
    /\ SubmittedMultiParent
    /\ pc = "terminated"
    /\ exit_code = 0
    /\ Len(reviews) = 1
    /\ \E p \in Parents(WalkEnd) : ~IsFetched(p)

\* C17: for a pull request, dry run or not, the author is read from the
\* patch file while the file is there: after the fetch of the pull request
\* ended with status 0 and before any removal, in-line or by an exit
\* handler.
C17_AuthorReadWhilePatchPresent ==
    argv.github # None =>
        \A i \in Events("commit") :
            /\ log[i].data.author = <<"author of", argv.github>>
            /\ \E j \in 1..(i - 1) :
                  /\ log[j].op = "fetch"
                  /\ log[j].id = argv.github
                  /\ log[j].ran
                  /\ log[j].status = 0
            /\ \A j \in 1..(i - 1) : log[j].op \notin {"remove", "atexit"}

C17_Witness ==
    /\ GitHubDryRun
    /\ pc = "terminated"
    /\ \E i \in Events("commit") :
          /\ ~log[i].ran
          /\ log[i].data.author = <<"author of", argv.github>>

C17_WitnessNormal ==
    /\ argv.github # None
    /\ ~argv.dry_run
    /\ pc = "terminated"
    /\ \E i \in Events("commit") : log[i].ran /\ log[i].status # 0

\* C18: at every moment at most one patch file written by the run exists,
\* the one named after the review being processed (a Review Board dry run
\* writes none); the patch of a review is removed before the patch of the
\* next one is fetched.
C18_OnePatchFileAtATime ==
    /\ Cardinality(files) <= 1
    /\ files \subseteq {patch_id}
    /\ ReviewBoardDryRun => files = {}
    /\ pc \in {"for", "apply_review", "fetch_patch"} => files = {}
    /\ \A i \in Events("fetch") :
          (i > 1 /\ log[i].ran) =>
              /\ log[i - 1].op = "remove"
              /\ log[i - 1].ran
              /\ log[i - 1].id # log[i].id

C18_Witness ==
    /\ ~ReviewBoardDryRun
    /\ start # None
    /\ pc = "commit_patch"
    /\ Len(history) = NumReviews - 1
    /\ files = {patch_id}

\* The commands of the steps of apply_review, the exit handlers' excluded.
StepEvents == {i \in 1..Len(log) : log[i].op # "atexit"}

\* The review at the position the for loop is processing, or processed last.
Current == reviews[idx - 1][1]

\* C19: while the review at position k is processed, from before the
\* handler registration until position k + 1 is taken, options['review_id']
\* is that review's identifier, and the patch fetched, applied and removed
\* and the record and URL used for the commit are those of that review; the
\* identifier given on the command line is overwritten and after the loop
\* the option holds the identifier of the last review processed.
C19_ReviewIdFollowsLoop ==
    (start # None /\ ChainReturned) =>
        /\ options.github = argv.github
        /\ options.dry_run = argv.dry_run
        /\ idx \in 1..(Len(reviews) + 1)
        /\ idx = 1 => options.review_id = start
        /\ idx > 1 =>
              /\ options.review_id = Current
              /\ patch_id = Current
              /\ pc # "apply_review" => handlers[Len(handlers)] = Current
        /\ pc \in {"apply_review", "fetch_patch", "apply_patch",
                   "commit_patch", "remove_patch"} => idx > 1
        /\ \A i \in StepEvents :
              /\ \E k \in 1..(idx - 1) : log[i].id = reviews[k][1]
              /\ log[i].op = "commit" =>
                    /\ log[i].data.url = review_url(log[i].id)
                    /\ log[i].data.summary = <<Summary(log[i].id)>>
        /\ (StepEvents # {} /\ pc \notin {"apply_review", "fetch_patch"}) =>
              log[CHOOSE i \in StepEvents :
                     \A j \in StepEvents : j <= i].id = options.review_id
        /\ \A i \in Events("atexit") : log[i].id = options.review_id
        /\ (pc = "terminated" /\ exit_code = 0 /\ reviews # <<>>) =>
              options.review_id = reviews[Len(reviews)][1]

C19_Witness ==
    /\ start # None
    /\ ChainReturned
    /\ pc = "commit_patch"
    /\ idx = 2
    /\ Len(reviews) = NumReviews
    /\ options.review_id # start
    /\ options.review_id = reviews[1][1]

\* The fetch events of the log in their order: one per review whose
\* processing got as far as its first command.
FetchEvents ==
    LET F == Events("fetch")
    IN  [k \in 1..Cardinality(F) |->
            CHOOSE i \in F : Cardinality({j \in F : j <= i}) = k]

\* The position of the last fetch, apply, commit or in-line removal event.
LastStep == CHOOSE i \in StepEvents : \A j \in StepEvents : j <= i

\* C20 (state part): one exit handler is registered per review begun, before
\* that review's fetch; at exit every registered handler runs once, and each
\* removes the patch file of the review current at exit (the one the last
\* command of the run was issued for: the failing review, or the last review
\* of the chain), never the file of an earlier review.
C20_HandlersAtExit ==
    /\ Len(handlers) =
          Len(FetchEvents) + (IF pc = "fetch_patch" THEN 1 ELSE 0)
    /\ \A k \in 1..Len(FetchEvents) : handlers[k] = log[FetchEvents[k]].id
    /\ pc \notin {"atexit", "terminated"} => Events("atexit") = {}
    /\ pc \in {"atexit", "terminated"} =>
          /\ pending \in 0..Len(handlers)
          /\ Cardinality(Events("atexit")) = Len(handlers) - pending
          /\ \A i \in Events("atexit") : \A j \in StepEvents : j < i
    /\ pc = "terminated" => pending = 0
    /\ \A i \in Events("atexit") :
          /\ log[i].id = patch_id
          /\ log[i].id = handlers[Len(handlers)]
          /\ log[i].id = log[LastStep].id
          /\ log[i].ran = ~remove_dry_run
          /\ log[i].ran => log[i].id \notin files
          /\ start # None =>
                \A k \in 1..(Len(handlers) - 1) : handlers[k] # log[i].id
          /\ (exit_code = 0 /\ start # None) =>
                log[i].id = reviews[Len(reviews)][1]
          /\ (exit_code # 0 /\ FailedEvents # {}) =>
                \E f \in FailedEvents : f = LastStep

\* C20: no exit handler is ever unregistered, and the handlers registered
\* run as C20_HandlersAtExit states.
C20_HandlersKeptAndLateBound ==
    /\ []C20_HandlersAtExit
    /\ [][/\ Len(handlers') >= Len(handlers)
          /\ SubSeq(handlers', 1, Len(handlers)) = handlers]_vars

\* The second of three reviews failed to apply: two handlers were registered
\* and both ran, each on the second review's patch file.
C20_Witness ==
    /\ pc = "terminated"
    /\ start # None
    /\ Len(reviews) = NumReviews
    /\ Len(handlers) = 2
    /\ exit_code # 0
    /\ log[LastStep].op = "apply"
    /\ Cardinality(Events("atexit")) = 2
    /\ \A i \in Events("atexit") :
          log[i].id = reviews[2][1] /\ log[i].id # handlers[1]

\* The pull request of a GitHub run was committed: its one handler ran.
C20_WitnessGitHub ==
    /\ pc = "terminated"
    /\ start = None
    /\ exit_code = 0
    /\ Cardinality(Events("atexit")) = 1
====
